---------------------------- MODULE Spec2Model ----------------------------
(***************************************************************************)
(* A model of the FOSDEM event browser (src/app.js, class FOSDEMBrowser):  *)
(* the favorites list and its persistence in localStorage, the import and  *)
(* export of favorites through files, and the filter/sort pipeline that    *)
(* produces the rendered view.                                             *)
(*                                                                         *)
(* JavaScript strings are sequences of one-character strings, so that      *)
(* lower-casing, joining, substring search, collation and JSON text are    *)
(* computed rather than assumed.  JavaScript values are records            *)
(* [t, s, items]: t is the type tag, s the characters of a string or the   *)
(* digits of a number, items the elements of an array (or the alternating  *)
(* keys and values of an object).                                          *)
(***************************************************************************)
EXTENDS Integers, Sequences, FiniteSets, TLC

VARIABLES
    phase,           \* position of the deferred parse task: scheduled, ready, failed
    dataScript,      \* the embedded <script id="events-data"> document
    store,           \* localStorage['fosdem-favorites']: <<>> (no entry) or <<text>>
    events,          \* this.events
    filteredEvents,  \* this.filteredEvents, as references (indices) into events
    favorites,       \* this.favorites, a sequence of JavaScript values
    controls,        \* the DOM filter controls: searchInput, favoritesOnly, sortBy, dayFilter, trackFilter
    trackOptions,    \* the <option>s appended to the track selector
    display,         \* what the page shows: eventsList, eventCount, favoriteCount
    reads,           \* FileReader reads in flight (file contents whose onload is pending)
    last             \* the handler that ran last and what it showed the user

vars == <<phase, dataScript, store, events, filteredEvents, favorites, controls,
          trackOptions, display, reads, last>>

----------------------------------------------------------------------------
(* Characters and JavaScript values *)

Lower == <<"a", "b", "c", "d", "e", "f", "g", "h", "i", "j", "k", "l", "m",
           "n", "o", "p", "q", "r", "s", "t", "u", "v", "w", "x", "y", "z">>
Upper == <<"A", "B", "C", "D", "E", "F", "G", "H", "I", "J", "K", "L", "M",
           "N", "O", "P", "Q", "R", "S", "T", "U", "V", "W", "X", "Y", "Z">>
Digit == <<"0", "1", "2", "3", "4", "5", "6", "7", "8", "9">>

Range(f) == {f[i] : i \in DOMAIN f}

\* index of c in the sequence f, 0 when absent
IndexIn(f, c) == IF c \in Range(f) THEN CHOOSE i \in DOMAIN f : f[i] = c ELSE 0

Whitespace == {" ", "\n", "\t"}

Undef == [t |-> "undefined", s |-> <<>>, items |-> <<>>]
Null == [t |-> "null", s |-> <<>>, items |-> <<>>]
Bool(b) == [t |-> "boolean", s |-> IF b THEN <<"1">> ELSE <<>>, items |-> <<>>]
Str(s) == [t |-> "string", s |-> s, items |-> <<>>]
Num(s) == [t |-> "number", s |-> s, items |-> <<>>]
Arr(items) == [t |-> "array", s |-> <<>>, items |-> items]
Obj(items) == [t |-> "object", s |-> <<>>, items |-> items]

\* Array.isArray(v)
IsArray(v) == v.t = "array"

\* typeof v === 'string'
IsString(v) == v.t = "string"

\* JavaScript truthiness of the values the program tests
Truthy(v) ==
    CASE v.t \in {"undefined", "null"} -> FALSE
      [] v.t = "string" -> v.s # <<>>
      [] v.t = "number" -> v.s # <<"0">>
      [] v.t = "boolean" -> v.s # <<>>
      [] OTHER -> TRUE

----------------------------------------------------------------------------
(* JSON.stringify and JSON.parse over character sequences *)

RECURSIVE Join(_, _)
\* Array.prototype.join: the parts separated by sep
Join(parts, sep) ==
    IF parts = <<>> THEN <<>>
    ELSE IF Len(parts) = 1 THEN parts[1]
    ELSE parts[1] \o sep \o Join(Tail(parts), sep)

RECURSIVE Spaces(_)
Spaces(n) == IF n <= 0 THEN <<>> ELSE <<" ">> \o Spaces(n - 1)

RECURSIVE Stringify(_, _, _)
\* JSON.stringify(v, null, gap) at nesting depth `depth`; gap = 0 is the
\* compact form.  Strings hold no character that needs escaping.
Stringify(v, gap, depth) ==
    LET nl(d) == IF gap = 0 THEN <<>> ELSE <<"\n">> \o Spaces(gap * d)
        elem(x) == IF x.t = "undefined" THEN Stringify(Null, gap, depth + 1)
                   ELSE Stringify(x, gap, depth + 1)
        member(k) == Stringify(v.items[2 * k - 1], gap, depth + 1)
                     \o (IF gap = 0 THEN <<":">> ELSE <<":", " ">>)
                     \o elem(v.items[2 * k])
    IN  CASE v.t = "string" -> <<"\"">> \o v.s \o <<"\"">>
          [] v.t = "number" -> v.s
          [] v.t = "boolean" -> IF v.s # <<>> THEN <<"t", "r", "u", "e">>
                                ELSE <<"f", "a", "l", "s", "e">>
          [] v.t = "array" ->
                IF v.items = <<>> THEN <<"[", "]">>
                ELSE <<"[">> \o nl(depth + 1)
                     \o Join([i \in DOMAIN v.items |-> elem(v.items[i])],
                             <<",">> \o nl(depth + 1))
                     \o nl(depth) \o <<"]">>
          [] v.t = "object" ->
                IF v.items = <<>> THEN <<"{", "}">>
                ELSE <<"{">> \o nl(depth + 1)
                     \o Join([k \in 1..(Len(v.items) \div 2) |-> member(k)],
                             <<",">> \o nl(depth + 1))
                     \o nl(depth) \o <<"}">>
          [] OTHER -> <<"n", "u", "l", "l">>

RECURSIVE SkipWs(_, _)
\* the first position >= i of text that holds no whitespace (Len + 1 at the end)
SkipWs(text, i) ==
    IF i <= Len(text) /\ text[i] \in Whitespace THEN SkipWs(text, i + 1) ELSE i

RECURSIVE ScanString(_, _)
\* the position of the closing quote at or after i, 0 when the string is unterminated
ScanString(text, i) ==
    IF i > Len(text) THEN 0
    ELSE IF text[i] = "\"" THEN i
    ELSE ScanString(text, i + 1)

RECURSIVE ScanDigits(_, _)
\* the first position >= i that holds no digit
ScanDigits(text, i) ==
    IF i <= Len(text) /\ text[i] \in Range(Digit) THEN ScanDigits(text, i + 1) ELSE i

ParseFail == [ok |-> FALSE, val |-> Undef, next |-> 0]

HasWord(text, i, word) ==
    /\ i + Len(word) - 1 <= Len(text)
    /\ SubSeq(text, i, i + Len(word) - 1) = word

RECURSIVE ParseValue(_, _)
RECURSIVE ParseElements(_, _, _)
RECURSIVE ParseMembers(_, _, _)

\* one JSON value starting at position i (which holds no whitespace)
ParseValue(text, i) ==
    IF i > Len(text) THEN ParseFail
    ELSE IF text[i] = "\"" THEN
        LET j == ScanString(text, i + 1)
        IN  IF j = 0 THEN ParseFail
            ELSE [ok |-> TRUE, val |-> Str(SubSeq(text, i + 1, j - 1)), next |-> j + 1]
    ELSE IF text[i] \in Range(Digit) THEN
        LET j == IF text[i] = "0" THEN i + 1 ELSE ScanDigits(text, i)
        IN  [ok |-> TRUE, val |-> Num(SubSeq(text, i, j - 1)), next |-> j]
    ELSE IF text[i] = "[" THEN
        LET k == SkipWs(text, i + 1)
        IN  IF k <= Len(text) /\ text[k] = "]"
            THEN [ok |-> TRUE, val |-> Arr(<<>>), next |-> k + 1]
            ELSE ParseElements(text, k, <<>>)
    ELSE IF text[i] = "{" THEN
        LET k == SkipWs(text, i + 1)
        IN  IF k <= Len(text) /\ text[k] = "}"
            THEN [ok |-> TRUE, val |-> Obj(<<>>), next |-> k + 1]
            ELSE ParseMembers(text, k, <<>>)
    ELSE IF HasWord(text, i, <<"n", "u", "l", "l">>) THEN
        [ok |-> TRUE, val |-> Null, next |-> i + 4]
    ELSE IF HasWord(text, i, <<"t", "r", "u", "e">>) THEN
        [ok |-> TRUE, val |-> Bool(TRUE), next |-> i + 4]
    ELSE IF HasWord(text, i, <<"f", "a", "l", "s", "e">>) THEN
        [ok |-> TRUE, val |-> Bool(FALSE), next |-> i + 5]
    ELSE ParseFail

\* the elements of an array from position i on, acc holding those already read
ParseElements(text, i, acc) ==
    LET r == ParseValue(text, i)
        k == SkipWs(text, r.next)
    IN  IF ~r.ok \/ k > Len(text) THEN ParseFail
        ELSE IF text[k] = "]"
            THEN [ok |-> TRUE, val |-> Arr(Append(acc, r.val)), next |-> k + 1]
        ELSE IF text[k] = ","
            THEN ParseElements(text, SkipWs(text, k + 1), Append(acc, r.val))
        ELSE ParseFail

\* the members of an object from position i on
ParseMembers(text, i, acc) ==
    LET key == ParseValue(text, i)
        c == SkipWs(text, key.next)
        r == ParseValue(text, SkipWs(text, c + 1))
        k == SkipWs(text, r.next)
    IN  IF ~key.ok \/ key.val.t # "string" \/ c > Len(text) THEN ParseFail
        ELSE IF text[c] # ":" \/ ~r.ok \/ k > Len(text) THEN ParseFail
        ELSE IF text[k] = "}"
            THEN [ok |-> TRUE, val |-> Obj(acc \o <<key.val, r.val>>), next |-> k + 1]
        ELSE IF text[k] = ","
            THEN ParseMembers(text, SkipWs(text, k + 1), acc \o <<key.val, r.val>>)
        ELSE ParseFail

\* JSON.parse(text): ok = FALSE stands for the SyntaxError it throws
JSONParse(text) ==
    LET r == ParseValue(text, SkipWs(text, 1))
    IN  IF r.ok /\ SkipWs(text, r.next) > Len(text)
        THEN [ok |-> TRUE, val |-> r.val]
        ELSE [ok |-> FALSE, val |-> Undef]

\* JSON.stringify(v)
JSONStringify(v) == Stringify(v, 0, 0)

\* JSON.stringify(v, null, 2)
JSONStringifyPretty(v) == Stringify(v, 2, 0)

----------------------------------------------------------------------------
(* String.prototype operations *)

\* String.prototype.toLowerCase
ToLowerCase(s) ==
    [i \in DOMAIN s |-> IF s[i] \in Range(Upper) THEN Lower[IndexIn(Upper, s[i])] ELSE s[i]]

\* String.prototype.includes: needle occurs in hay as a contiguous substring
Includes(hay, needle) ==
    \E i \in 0..(Len(hay) - Len(needle)) : SubSeq(hay, i + 1, i + Len(needle)) = needle

\* The primary collation weight of a character: white space and punctuation
\* before digits before letters, a letter and its capital alike.
PrimaryWeight(c) ==
    CASE c \in Whitespace -> 1
      [] c = ":" -> 2
      [] c \in Range(Digit) -> 10 + IndexIn(Digit, c)
      [] c \in Range(Lower) -> 30 + IndexIn(Lower, c)
      [] c \in Range(Upper) -> 30 + IndexIn(Upper, c)
      [] OTHER -> 3

\* The case weight of a character: a small letter before its capital.
CaseWeight(c) == IF c \in Range(Upper) THEN 1 ELSE 0

RECURSIVE CompareWeights(_, _)
\* lexicographic comparison of two sequences of weights: -1, 0 or 1
CompareWeights(a, b) ==
    IF a = <<>> THEN (IF b = <<>> THEN 0 ELSE -1)
    ELSE IF b = <<>> THEN 1
    ELSE IF Head(a) < Head(b) THEN -1
    ELSE IF Head(a) > Head(b) THEN 1
    ELSE CompareWeights(Tail(a), Tail(b))

\* String.prototype.localeCompare under the default collation: the letters
\* decide first, the case of the letters only between otherwise equal strings.
LocaleCompare(a, b) ==
    LET primary == CompareWeights([i \in DOMAIN a |-> PrimaryWeight(a[i])],
                                  [i \in DOMAIN b |-> PrimaryWeight(b[i])])
    IN  IF primary # 0 THEN primary
        ELSE CompareWeights([i \in DOMAIN a |-> CaseWeight(a[i])],
                            [i \in DOMAIN b |-> CaseWeight(b[i])])

\* v || fallback, for a string-or-undefined v, as characters
OrElse(v, fallback) == IF Truthy(v) THEN v.s ELSE fallback

RECURSIVE SelectSeqIdx(_, _)
\* the indices i of 1..n, ascending, for which keep[i] holds
SelectSeqIdx(n, keep) ==
    IF n = 0 THEN <<>>
    ELSE IF keep[n] THEN Append(SelectSeqIdx(n - 1, keep), n)
    ELSE SelectSeqIdx(n - 1, keep)

----------------------------------------------------------------------------
(* Favorites: loading, saving, toggling *)

\* what loadFavorites returns and what it leaves in the store; stored is the
\* entry found under 'fosdem-favorites': <<>> (getItem gives null) or <<text>>
loadFavorites(stored) ==
    IF stored = <<>> \/ stored[1] = <<>>
    THEN [favorites |-> <<>>, store |-> stored]
    ELSE LET parsed == JSONParse(stored[1])
         IN  IF ~parsed.ok THEN [favorites |-> <<>>, store |-> <<>>]
             ELSE IF ~IsArray(parsed.val) THEN [favorites |-> <<>>, store |-> <<>>]
             ELSE [favorites |-> parsed.val.items, store |-> stored]

\* the store entry saveFavorites writes for the list favs
saveFavorites(favs) == <<JSONStringify(Arr(favs))>>

\* this.favorites.indexOf(eventId): the first position holding eventId, 0 for -1
IndexOf(favs, eventId) ==
    IF \E i \in DOMAIN favs : favs[i] = eventId
    THEN CHOOSE i \in DOMAIN favs : favs[i] = eventId /\ \A j \in 1..(i - 1) : favs[j] # eventId
    ELSE 0

\* the toggle with the list rebuilt from the ids of catalog events only
ToggledPruning(favs, eventId) ==
    LET index == IndexOf(favs, eventId)
        toggled == IF index > 0
                   THEN SubSeq(favs, 1, index - 1) \o SubSeq(favs, index + 1, Len(favs))
                   ELSE Append(favs, eventId)
    IN  SelectSeq(toggled, LAMBDA id : \E i \in DOMAIN events : events[i].id = id)

\* the list after toggleFavorite's splice(index, 1) or push(eventId)
Toggled(favs, eventId) ==
    LET index == IndexOf(favs, eventId)
    IN  IF index > 0
        THEN SubSeq(favs, 1, index - 1) \o SubSeq(favs, index + 1, Len(favs))
        ELSE Append(favs, eventId)

\* this.favorites.includes(eventId)
isFavorite(favs, eventId) == \E i \in DOMAIN favs : favs[i] = eventId

----------------------------------------------------------------------------
(* The query pipeline of filterEvents *)

Saturday == <<"s", "a", "t", "u", "r", "d", "a", "y">>
Sunday == <<"s", "u", "n", "d", "a", "y">>
All == <<"a", "l", "l">>

\* Searchable with the empty speaker names left in
SearchableWithEmptyNames(event) ==
    LET names == [i \in DOMAIN event.speakers |-> OrElse(event.speakers[i], <<>>)]
    IN  ToLowerCase(Join(<<OrElse(event.title, <<>>)>> \o names
                         \o <<OrElse(event.roomName, <<>>), OrElse(event.track, <<>>)>>,
                         <<" ">>))

\* the text an event is searched in: title, the non-empty speaker names, the
\* room name and the track, joined by single spaces and lower-cased
Searchable(event) ==
    LET names == [i \in DOMAIN event.speakers |-> OrElse(event.speakers[i], <<>>)]
        kept == SelectSeq(names, LAMBDA n : n # <<>>)
    IN  ToLowerCase(Join(<<OrElse(event.title, <<>>)>> \o kept
                         \o <<OrElse(event.roomName, <<>>), OrElse(event.track, <<>>)>>,
                         <<" ">>))

\* Passes with the day filter applied only to the events that have a day
PassesWithoutDay(event, favs, c) ==
    LET searchTerm == ToLowerCase(c.searchInput)
    IN  IF c.favoritesOnly /\ ~isFavorite(favs, event.id) THEN FALSE
        ELSE IF c.dayFilter # All /\ Truthy(event.dayId) /\ event.dayId # Str(c.dayFilter)
            THEN FALSE
        ELSE IF c.trackFilter # All /\ event.track # Str(c.trackFilter) THEN FALSE
        ELSE IF searchTerm # <<>> /\ ~Includes(Searchable(event), searchTerm) THEN FALSE
        ELSE TRUE

\* the callback of this.events.filter: whether event stays in the view
Passes(event, favs, c) ==
    LET searchTerm == ToLowerCase(c.searchInput)
    IN  IF c.favoritesOnly /\ ~isFavorite(favs, event.id) THEN FALSE
        ELSE IF c.dayFilter # All /\ event.dayId # Str(c.dayFilter) THEN FALSE
        ELSE IF c.trackFilter # All /\ event.track # Str(c.trackFilter) THEN FALSE
        ELSE IF searchTerm # <<>> /\ ~Includes(Searchable(event), searchTerm) THEN FALSE
        ELSE TRUE

\* dayOrder[event.day?.id] ?? 2
DayRank(event) ==
    IF event.dayId = Str(Saturday) THEN 0
    ELSE IF event.dayId = Str(Sunday) THEN 1
    ELSE 2

NoTime == <<"9", "9", ":", "9", "9">>
ZZZ == <<"Z", "Z", "Z">>

\* Compare with a missing start time read as the empty string
CompareMissingTimeFirst(sortBy, a, b) ==
    CASE sortBy = "time" ->
            IF DayRank(a) # DayRank(b) THEN DayRank(a) - DayRank(b)
            ELSE LocaleCompare(OrElse(a.startTime, <<>>), OrElse(b.startTime, <<>>))
      [] sortBy = "title" -> LocaleCompare(a.title.s, b.title.s)
      [] sortBy = "room" -> LocaleCompare(OrElse(a.roomName, ZZZ), OrElse(b.roomName, ZZZ))
      [] sortBy = "day" -> DayRank(a) - DayRank(b)
      [] sortBy = "track" -> LocaleCompare(OrElse(a.track, ZZZ), OrElse(b.track, ZZZ))
      [] OTHER -> 0

\* the comparator with no result for a tie: equal keys count as out of order
CompareNeverEqual(sortBy, a, b) ==
    LET c == CASE sortBy = "time" ->
                     IF DayRank(a) # DayRank(b) THEN DayRank(a) - DayRank(b)
                     ELSE LocaleCompare(OrElse(a.startTime, NoTime), OrElse(b.startTime, NoTime))
               [] sortBy = "title" -> LocaleCompare(a.title.s, b.title.s)
               [] sortBy = "room" -> LocaleCompare(OrElse(a.roomName, ZZZ), OrElse(b.roomName, ZZZ))
               [] sortBy = "day" -> DayRank(a) - DayRank(b)
               [] sortBy = "track" -> LocaleCompare(OrElse(a.track, ZZZ), OrElse(b.track, ZZZ))
               [] OTHER -> 0
    IN  IF c = 0 THEN 1 ELSE c

\* the comparator handed to this.filteredEvents.sort
Compare(sortBy, a, b) ==
    CASE sortBy = "time" ->
            IF DayRank(a) # DayRank(b) THEN DayRank(a) - DayRank(b)
            ELSE LocaleCompare(OrElse(a.startTime, NoTime), OrElse(b.startTime, NoTime))
      [] sortBy = "title" -> LocaleCompare(a.title.s, b.title.s)
      [] sortBy = "room" -> LocaleCompare(OrElse(a.roomName, ZZZ), OrElse(b.roomName, ZZZ))
      [] sortBy = "day" -> DayRank(a) - DayRank(b)
      [] sortBy = "track" -> LocaleCompare(OrElse(a.track, ZZZ), OrElse(b.track, ZZZ))
      [] OTHER -> 0

RECURSIVE InsertRef(_, _, _, _)
\* refs, sorted, with x put behind every element that does not compare above it
InsertRef(refs, x, sortBy, evs) ==
    IF refs = <<>> \/ Compare(sortBy, evs[refs[Len(refs)]], evs[x]) <= 0
    THEN Append(refs, x)
    ELSE Append(InsertRef(SubSeq(refs, 1, Len(refs) - 1), x, sortBy, evs), refs[Len(refs)])

RECURSIVE SortRefs(_, _, _)
\* Array.prototype.sort with the comparator: a stable sort
SortRefs(refs, sortBy, evs) ==
    IF refs = <<>> THEN <<>>
    ELSE InsertRef(SortRefs(SubSeq(refs, 1, Len(refs) - 1), sortBy, evs),
                   refs[Len(refs)], sortBy, evs)

\* the value filterEvents assigns to this.filteredEvents
Filtered(evs, favs, c) ==
    SortRefs(SelectSeqIdx(Len(evs), [i \in DOMAIN evs |-> Passes(evs[i], favs, c)]),
             c.sortBy, evs)

\* updateStats followed by renderEvents: the counts and the list the page shows
Rendered(view, favs, evs) ==
    [eventsList |-> IF view = <<>> THEN "no-events" ELSE "cards",
     cards |-> [k \in DOMAIN view |->
                  [ref |-> view[k], isFav |-> isFavorite(favs, evs[view[k]].id)]],
     eventCount |-> <<Len(view)>>,
     favoriteCount |-> <<Len(favs)>>]

\* the UTF-16 code unit of a character, which Array.prototype.sort() orders by
CodeUnit(c) ==
    CASE c \in Range(Digit) -> 47 + IndexIn(Digit, c)
      [] c \in Range(Upper) -> 64 + IndexIn(Upper, c)
      [] c \in Range(Lower) -> 96 + IndexIn(Lower, c)
      [] c = ":" -> 58
      [] OTHER -> 32

\* the tracks left in the order the Set has them, without the sort
InsertTrackUnsorted(tracks, x) == Append(tracks, x)

RECURSIVE InsertTrack(_, _)
InsertTrack(tracks, x) ==
    IF tracks = <<>>
       \/ CompareWeights([i \in DOMAIN tracks[Len(tracks)] |-> CodeUnit(tracks[Len(tracks)][i])],
                         [i \in DOMAIN x |-> CodeUnit(x[i])]) <= 0
    THEN Append(tracks, x)
    ELSE Append(InsertTrack(SubSeq(tracks, 1, Len(tracks) - 1), x), tracks[Len(tracks)])

RECURSIVE TracksOf(_)
\* the Set of truthy tracks in insertion order, then sorted by code units
TracksOf(evs) ==
    IF evs = <<>> THEN <<>>
    ELSE LET rest == TracksOf(SubSeq(evs, 1, Len(evs) - 1))
             track == evs[Len(evs)].track
         IN  IF ~Truthy(track) \/ track.s \in Range(rest) THEN rest
             ELSE InsertTrack(rest, track.s)

\* the options populateTrackFilter appends to the track selector
populateTrackFilter(evs) == TracksOf(evs)

----------------------------------------------------------------------------
(* The catalogs, files and inputs the model draws from *)

Event(id, title, track, dayId, roomName, startTime, speakers) ==
    [id |-> id, title |-> title, track |-> track, dayId |-> dayId,
     roomName |-> roomName, startTime |-> startTime, speakers |-> speakers]

IdA == Str(<<"a">>)
IdB == Str(<<"b">>)
IdC == Str(<<"c">>)
IdD == Str(<<"d">>)
IdE == Str(<<"e">>)
IdX == Str(<<"x">>)

Sys == <<"S", "y", "s">>
Cl == <<"C", "l">>
Kube == <<"k", "u", "b", "e">>

EventA == Event(IdA, Str(<<"R", "u", "s", "t">>), Str(Sys), Str(Saturday),
                Str(<<"K", "1">>), Str(<<"1", "0", ":", "0", "0">>),
                <<Str(<<"A", "l">>)>>)
EventB == Event(IdB, Str(<<"K", "u", "b", "e">>), Str(Cl), Str(Sunday),
                Undef, Str(<<"0", "9", ":", "0", "0">>),
                <<Str(<<>>), Str(<<"B", "o">>)>>)
EventC == Event(IdC, Str(<<"k", "u", "b", "e", " ", "O", "p">>), Str(Sys), Undef,
                Str(<<"H", "2">>), Str(<<"0", "8", ":", "0", "0">>), <<>>)
EventD == Event(IdD, Str(<<"G", "o">>), Str(Sys), Str(Saturday),
                Undef, Str(<<"0", "9", ":", "3", "0">>), <<Undef>>)
EventE == Event(IdE, Str(<<"Z", "i", "g">>), Undef, Str(Saturday),
                Str(<<"K", "1">>), Undef, <<>>)

\* the two-event catalog of the specification's scenarios
SmallCatalog == <<EventA, EventB>>
\* a catalog with missing days, tracks, rooms and times, and with ties
LargeCatalog == <<EventB, EventE, EventA, EventC, EventD>>

Q == "\""
TextEmptyArray == <<"[", "]">>
TextA == <<"[", Q, "a", Q, "]">>
TextAA == <<"[", Q, "a", Q, ",", Q, "a", Q, "]">>
TextBX == <<"[", "\n", " ", " ", Q, "b", Q, ",", "\n", " ", " ", Q, "x", Q, "\n", "]">>
TextX2 == <<"[", Q, "x", Q, ",", " ", "2", "]">>
TextObject == <<"{", Q, "a", Q, ":", "1", "}">>
TextString == <<Q, "x", Q>>
TextTruncated == <<"[", Q, "a", Q, ",">>
TextWord == <<"x">>

\* what localStorage may hold under the key when the page is opened
StoredEntries ==
    {<<>>, <<<<>>>>, <<TextA>>, <<TextBX>>, <<TextX2>>, <<TextObject>>,
     <<TextString>>, <<TextWord>>}

\* the files the user may pick for import
ImportFiles == {TextEmptyArray, TextAA, TextBX, TextX2, TextObject, TextTruncated}

\* the embedded documents: a bare array, the wrapper object, no script element,
\* text that is no JSON
DataArray(evs) == [kind |-> "array", events |-> evs]
DataObject(evs) == [kind |-> "object", events |-> evs]
DataMissing == [kind |-> "missing", events |-> <<>>]
DataInvalid == [kind |-> "invalid", events |-> <<>>]

\* reads that may be in flight at once
MaxReads == 1

----------------------------------------------------------------------------
(* State after construction *)

InitialControls ==
    [searchInput |-> <<>>, favoritesOnly |-> FALSE, sortBy |-> "track",
     dayFilter |-> All, trackFilter |-> All]

NoDialog == <<>>
Alert(msg) == <<[kind |-> "alert", msg |-> msg, current |-> 0, imported |-> 0, answer |-> FALSE]>>
Confirm(current, imported, answer) ==
    <<[kind |-> "confirm", msg |-> "replace", current |-> current,
       imported |-> imported, answer |-> answer]>>

\* the record of the handler that ran last: writes counts its setItem calls;
\* a toggle also records the list it found (before) and whether the handler
\* before it was a toggle of the same id (again); reader.onload records
\* whether the handler before it was a toggle (afterToggle), which then ran
\* while the read was in flight
Ran(op, data, outcome, dialog) ==
    [op |-> op, data |-> data, outcome |-> outcome, dialog |-> dialog,
     writes |-> 0, before |-> <<>>, again |-> FALSE, afterToggle |-> FALSE]

ToggleRan(eventId, found, previous) ==
    [Ran("toggleFavorite", <<eventId.s>>, "done", NoDialog) EXCEPT
        !.writes = 1,
        !.before = <<found>>,
        !.again = (previous.op = "toggleFavorite" /\ previous.data = <<eventId.s>>)]

\* the constructor: fields set, loadFavorites run against the stored entry,
\* init() has shown the loading indicator and scheduled parseData
Constructed(stored, data) ==
    /\ phase = "scheduled"
    /\ dataScript = data
    /\ store = loadFavorites(stored).store
    /\ events = <<>>
    /\ filteredEvents = <<>>
    /\ favorites = loadFavorites(stored).favorites
    /\ controls = InitialControls
    /\ trackOptions = <<>>
    /\ display = [eventsList |-> "loading", cards |-> <<>>,
                  eventCount |-> <<>>, favoriteCount |-> <<>>]
    /\ reads = {}
    /\ last = Ran("constructor", stored, "done", NoDialog)

Init ==
    \E stored \in StoredEntries :
        \E data \in {DataArray(SmallCatalog), DataMissing, DataInvalid} :
            Constructed(stored, data)

----------------------------------------------------------------------------
(* The handlers *)

\* parseData, the deferred task of init(): on success the catalog is set, the
\* track selector populated, the listeners registered and the first view
\* computed; a missing or unparsable document ends in showError
parseData ==
    /\ phase = "scheduled"
    /\ IF dataScript.kind \in {"array", "object"}
       THEN /\ phase' = "ready"
            /\ events' = dataScript.events
            /\ trackOptions' = trackOptions \o populateTrackFilter(dataScript.events)
            /\ filteredEvents' = Filtered(dataScript.events, favorites, controls)
            /\ display' = Rendered(filteredEvents', favorites, dataScript.events)
            /\ last' = Ran("parseData", <<>>, "loaded", NoDialog)
       ELSE /\ phase' = "failed"
            /\ display' = [display EXCEPT !.eventsList = "error"]
            /\ last' = Ran("parseData", <<>>, "error", NoDialog)
            /\ UNCHANGED <<events, trackOptions, filteredEvents>>
    /\ UNCHANGED <<dataScript, store, favorites, controls, reads>>

\* filterEvents sorting this.events itself, in place, before it filters
ControlChangedSortingCatalog(c) ==
    /\ c # controls
    /\ controls' = c
    /\ IF phase = "ready"
       THEN /\ events' = LET refs == SortRefs([i \in DOMAIN events |-> i], c.sortBy, events)
                         IN  [k \in DOMAIN events |-> events[refs[k]]]
            /\ filteredEvents' = Filtered(events', favorites, c)
            /\ display' = Rendered(filteredEvents', favorites, events')
            /\ last' = Ran("filterEvents", <<>>, "done", NoDialog)
       ELSE UNCHANGED <<events, filteredEvents, display, last>>
    /\ UNCHANGED <<phase, dataScript, store, favorites, trackOptions, reads>>

\* filterEvents as run by a listener after the control change to c; before
\* parseData has registered the listeners a change only alters the control
ControlChanged(c) ==
    /\ c # controls
    /\ controls' = c
    /\ IF phase = "ready"
       THEN /\ filteredEvents' = Filtered(events, favorites, c)
            /\ display' = Rendered(filteredEvents', favorites, events)
            /\ last' = Ran("filterEvents", <<>>, "done", NoDialog)
       ELSE UNCHANGED <<filteredEvents, display, last>>
    /\ UNCHANGED <<phase, dataScript, store, events, favorites, trackOptions, reads>>

searchInput(term) == ControlChanged([controls EXCEPT !.searchInput = term])

favoritesOnlyChange == ControlChanged([controls EXCEPT !.favoritesOnly = ~@])

sortByChange(key) == ControlChanged([controls EXCEPT !.sortBy = key])

dayFilterChange(day) == ControlChanged([controls EXCEPT !.dayFilter = day])

trackFilterChange(track) ==
    /\ track = All \/ track \in Range(trackOptions)
    /\ ControlChanged([controls EXCEPT !.trackFilter = track])

\* toggleFavorite with saveFavorites called before the list is changed
toggleFavoriteSaveFirst(eventId) ==
    /\ phase = "ready"
    /\ \E k \in DOMAIN display.cards : events[display.cards[k].ref].id = eventId
    /\ store' = saveFavorites(favorites)
    /\ favorites' = Toggled(favorites, eventId)
    /\ display' = Rendered(filteredEvents, favorites', events)
    /\ last' = ToggleRan(eventId, favorites, last)
    /\ UNCHANGED <<phase, dataScript, events, filteredEvents, controls, trackOptions, reads>>

\* toggleFavorite with saveFavorites called only in the branch that adds the id
toggleFavoriteSaveOnAdd(eventId) ==
    /\ phase = "ready"
    /\ \E k \in DOMAIN display.cards : events[display.cards[k].ref].id = eventId
    /\ favorites' = Toggled(favorites, eventId)
    /\ store' = IF isFavorite(favorites, eventId) THEN store ELSE saveFavorites(favorites')
    /\ display' = Rendered(filteredEvents, favorites', events)
    /\ last' = [ToggleRan(eventId, favorites, last) EXCEPT
                   !.writes = IF isFavorite(favorites, eventId) THEN 0 ELSE 1]
    /\ UNCHANGED <<phase, dataScript, events, filteredEvents, controls, trackOptions, reads>>

\* a click on the favorite button of a rendered card
toggleFavorite(eventId) ==
    /\ phase = "ready"
    /\ \E k \in DOMAIN display.cards : events[display.cards[k].ref].id = eventId
    /\ favorites' = Toggled(favorites, eventId)
    /\ store' = saveFavorites(favorites')
    /\ display' = Rendered(filteredEvents, favorites', events)
    /\ last' = ToggleRan(eventId, favorites, last)
    /\ UNCHANGED <<phase, dataScript, events, filteredEvents, controls, trackOptions, reads>>

\* the export with the ids of no catalog event left out of the document
saveFavoritesToFileCatalogOnly ==
    /\ phase = "ready"
    /\ last' = Ran("saveFavoritesToFile",
                   <<JSONStringifyPretty(Arr(SelectSeq(favorites,
                        LAMBDA id : \E i \in DOMAIN events : events[i].id = id)))>>,
                   "done", NoDialog)
    /\ UNCHANGED <<phase, dataScript, store, events, filteredEvents, favorites,
                   controls, trackOptions, display, reads>>

\* a click on the export button: the download of the pretty-printed list
saveFavoritesToFile ==
    /\ phase = "ready"
    /\ last' = Ran("saveFavoritesToFile", <<JSONStringifyPretty(Arr(favorites))>>,
                   "done", NoDialog)
    /\ UNCHANGED <<phase, dataScript, store, events, filteredEvents, favorites,
                   controls, trackOptions, display, reads>>

\* a click on the import button and the pick of a file: readAsText is started
readAsText(text, limit) ==
    /\ phase = "ready"
    /\ text \notin reads
    /\ Cardinality(reads) < limit
    /\ reads' = reads \cup {text}
    /\ last' = Ran("loadFavoritesFromFile", <<>>, "reading", NoDialog)
    /\ UNCHANGED <<phase, dataScript, store, events, filteredEvents, favorites,
                   controls, trackOptions, display>>

\* the import with at most MaxReads reads in flight at once
loadFavoritesFromFile(text) == readAsText(text, MaxReads)

\* Onload without the check that every imported item is a string
OnloadUnvalidated(text, favs, answer) ==
    LET imported == JSONParse(text)
    IN  IF ~imported.ok
        THEN [outcome |-> "error", favorites |-> favs, dialog |-> Alert("syntax")]
        ELSE IF ~IsArray(imported.val)
        THEN [outcome |-> "error", favorites |-> favs, dialog |-> Alert("array")]
        ELSE IF Len(favs) > 0 /\ ~answer
        THEN [outcome |-> "declined", favorites |-> favs,
              dialog |-> Confirm(Len(favs), Len(imported.val.items), FALSE)]
        ELSE [outcome |-> "replaced", favorites |-> imported.val.items,
              dialog |-> IF Len(favs) > 0
                         THEN Confirm(Len(favs), Len(imported.val.items), TRUE)
                         ELSE NoDialog]

\* Onload asking for confirmation when the imported list, not the current one,
\* is non-empty
OnloadAsksOnImported(text, favs, answer) ==
    LET imported == JSONParse(text)
        currentCount == Len(favs)
        importedCount == Len(imported.val.items)
    IN  IF ~imported.ok
        THEN [outcome |-> "error", favorites |-> favs, dialog |-> Alert("syntax")]
        ELSE IF ~IsArray(imported.val)
        THEN [outcome |-> "error", favorites |-> favs, dialog |-> Alert("array")]
        ELSE IF ~\A i \in DOMAIN imported.val.items : IsString(imported.val.items[i])
        THEN [outcome |-> "error", favorites |-> favs, dialog |-> Alert("strings")]
        ELSE IF importedCount > 0 /\ ~answer
        THEN [outcome |-> "declined", favorites |-> favs,
              dialog |-> Confirm(currentCount, importedCount, FALSE)]
        ELSE [outcome |-> "replaced", favorites |-> imported.val.items,
              dialog |-> IF importedCount > 0
                         THEN Confirm(currentCount, importedCount, TRUE)
                         ELSE NoDialog]

\* Onload adding the imported ids to the current list instead of replacing it
OnloadMerging(text, favs, answer) ==
    LET imported == JSONParse(text)
        currentCount == Len(favs)
        importedCount == Len(imported.val.items)
    IN  IF ~imported.ok
        THEN [outcome |-> "error", favorites |-> favs, dialog |-> Alert("syntax")]
        ELSE IF ~IsArray(imported.val)
        THEN [outcome |-> "error", favorites |-> favs, dialog |-> Alert("array")]
        ELSE IF ~\A i \in DOMAIN imported.val.items : IsString(imported.val.items[i])
        THEN [outcome |-> "error", favorites |-> favs, dialog |-> Alert("strings")]
        ELSE IF currentCount > 0 /\ ~answer
        THEN [outcome |-> "declined", favorites |-> favs,
              dialog |-> Confirm(currentCount, importedCount, FALSE)]
        ELSE [outcome |-> "replaced", favorites |-> favs \o imported.val.items,
              dialog |-> IF currentCount > 0
                         THEN Confirm(currentCount, importedCount, TRUE)
                         ELSE NoDialog]

\* reader.onload with no overwrite check of its own, as if the check had been
\* made when import was clicked: a valid list replaces the favorites unasked
OnloadTrustingClick(text, favs, answer) ==
    LET imported == JSONParse(text)
    IN  IF ~imported.ok
        THEN [outcome |-> "error", favorites |-> favs, dialog |-> Alert("syntax")]
        ELSE IF ~IsArray(imported.val)
        THEN [outcome |-> "error", favorites |-> favs, dialog |-> Alert("array")]
        ELSE IF ~\A i \in DOMAIN imported.val.items : IsString(imported.val.items[i])
        THEN [outcome |-> "error", favorites |-> favs, dialog |-> Alert("strings")]
        ELSE [outcome |-> "replaced", favorites |-> imported.val.items, dialog |-> NoDialog]

\* what reader.onload does with the file's text, the list favs and the user's
\* answer to the confirmation (asked only when favs is not empty)
Onload(text, favs, answer) ==
    LET imported == JSONParse(text)
        currentCount == Len(favs)
        importedCount == Len(imported.val.items)
    IN  IF ~imported.ok
        THEN [outcome |-> "error", favorites |-> favs, dialog |-> Alert("syntax")]
        ELSE IF ~IsArray(imported.val)
        THEN [outcome |-> "error", favorites |-> favs, dialog |-> Alert("array")]
        ELSE IF ~\A i \in DOMAIN imported.val.items : IsString(imported.val.items[i])
        THEN [outcome |-> "error", favorites |-> favs, dialog |-> Alert("strings")]
        ELSE IF currentCount > 0 /\ ~answer
        THEN [outcome |-> "declined", favorites |-> favs,
              dialog |-> Confirm(currentCount, importedCount, FALSE)]
        ELSE [outcome |-> "replaced", favorites |-> imported.val.items,
              dialog |-> IF currentCount > 0
                         THEN Confirm(currentCount, importedCount, TRUE)
                         ELSE NoDialog]

\* reader.onload: the read of text completes
readerOnload(text, answer) ==
    /\ text \in reads
    /\ reads' = reads \ {text}
    /\ LET r == Onload(text, favorites, answer)
       IN  /\ last' = [Ran("onload", <<text>>, r.outcome, r.dialog) EXCEPT
                         !.writes = IF r.outcome = "replaced" THEN 1 ELSE 0,
                         !.afterToggle = (last.op = "toggleFavorite")]
           /\ IF r.outcome = "replaced"
              THEN /\ favorites' = r.favorites
                   /\ store' = saveFavorites(favorites')
                   /\ filteredEvents' = Filtered(events, favorites', controls)
                   /\ display' = Rendered(filteredEvents', favorites', events)
              ELSE UNCHANGED <<favorites, store, filteredEvents, display>>
    /\ UNCHANGED <<phase, dataScript, events, controls, trackOptions>>

SortKeys == {"time", "title", "room", "day", "track"}

Next ==
    \/ parseData
    \/ \E term \in {<<>>, Kube} : searchInput(term)
    \/ favoritesOnlyChange
    \/ \E key \in {"track", "time"} : sortByChange(key)
    \/ \E day \in {All, Sunday} : dayFilterChange(day)
    \/ \E track \in {All, Cl} : trackFilterChange(track)
    \/ \E eventId \in {IdA, IdB} : toggleFavorite(eventId)
    \/ saveFavoritesToFile
    \/ \E text \in ImportFiles : loadFavoritesFromFile(text)
    \/ \E text \in ImportFiles : \E answer \in BOOLEAN : readerOnload(text, answer)

Spec == Init /\ [][Next]_vars

----------------------------------------------------------------------------
(* The query pipeline over the large catalog: the page is opened on the    *)
(* large catalog with one of a few stored favorites lists, and the user    *)
(* works the filter controls and the favorite buttons.                     *)

QueryTerms ==
    {<<>>, Kube, <<"K", "U">>, <<"e", " ", "b">>, <<"o", " ", " ">>, <<"1", " ", "s">>}

InitQuery ==
    \E stored \in {<<>>, <<TextA>>, <<TextBX>>} :
        \E data \in {DataArray(LargeCatalog), DataObject(LargeCatalog)} :
            Constructed(stored, data)

NextQuery ==
    \/ parseData
    \/ \E term \in QueryTerms : searchInput(term)
    \/ favoritesOnlyChange
    \/ \E key \in SortKeys : sortByChange(key)
    \/ \E day \in {All, Saturday, Sunday} : dayFilterChange(day)
    \/ \E track \in {All, Cl, Sys} : trackFilterChange(track)
    \/ \E eventId \in {IdA, IdB} : toggleFavorite(eventId)

SpecQuery == InitQuery /\ [][NextQuery]_vars

----------------------------------------------------------------------------
(* Claims *)

\* the store entry st is the compact JSON text of the list favs, and reads
\* back as the same ids in the same order
InSync(st, favs) ==
    /\ st = <<JSONStringify(Arr(favs))>>
    /\ JSONParse(st[1]) = [ok |-> TRUE, val |-> Arr(favs)]

\* the handler recorded in ran changed the favorites list
Mutated(ran) == ran.op = "toggleFavorite" \/ (ran.op = "onload" /\ ran.outcome = "replaced")

\* C1: when a toggleFavorite or a successful import has returned, the entry under
\* 'fosdem-favorites' is the JSON encoding of the in-memory list (same ids, same
\* order), and no later handler (toggle, import, declined or failed import,
\* export, filter change) takes the two out of step again.
PersistenceFollowsMutation ==
    [][/\ Mutated(last') => InSync(store', favorites')
       /\ InSync(store, favorites) => InSync(store', favorites')]_vars

\* C1 witness: a toggle has returned with two or more favorites, stored in step
PersistedAfterToggle ==
    /\ last.op = "toggleFavorite"
    /\ Len(favorites) >= 2
    /\ InSync(store, favorites)

\* the view and the counts the page shows are those of the current criteria and favorites
ViewIsCurrent ==
    /\ filteredEvents = Filtered(events, favorites, controls)
    /\ [k \in DOMAIN display.cards |-> display.cards[k].ref] = filteredEvents
    /\ display.eventCount = <<Len(Filtered(events, favorites, controls))>>

\* C2: after toggleFavorite(id) has returned, the rendered view and the displayed
\* event count are those of filtering and sorting the catalog with the current
\* criteria and the updated favorites; under favoritesOnly no rendered event is a
\* non-favorite.
ToggleRecomputesView ==
    last.op = "toggleFavorite" =>
        /\ ViewIsCurrent
        /\ controls.favoritesOnly =>
              \A k \in DOMAIN display.cards :
                  isFavorite(favorites, events[display.cards[k].ref].id)

\* the ids a favorites list or the catalog can hold in this model
Ids == {IdA, IdB, IdC, IdD, IdE, IdX}

\* C3: toggleFavorite(id) flips the membership of id and leaves the membership
\* of every other id as it was.
ToggleFlipsMembership ==
    [][\A eventId \in Ids :
          toggleFavorite(eventId) =>
              /\ isFavorite(favorites', eventId) = ~isFavorite(favorites, eventId)
              /\ \A other \in Ids \ {eventId} :
                    isFavorite(favorites', other) = isFavorite(favorites, other)]_vars

\* text is the content of a file an import accepts: a JSON array of strings
IsStringArrayText(text) ==
    /\ JSONParse(text).ok
    /\ IsArray(JSONParse(text).val)
    /\ \A i \in DOMAIN JSONParse(text).val.items : IsString(JSONParse(text).val.items[i])

\* the step is the completion of the read of text
OnloadOf(text) ==
    /\ text \in reads
    /\ reads' = reads \ {text}
    /\ last'.op = "onload"
    /\ last'.data = <<text>>

\* the favorites, the store entry, the view and the page are as before the step
NothingChanged == UNCHANGED <<favorites, store, filteredEvents, display>>

\* C4: the completion of an import whose file does not parse as JSON, parses to
\* a non-array or holds a non-string element shows an alert and leaves the
\* favorites, the store entry and the view as they were.
RejectedImportChangesNothing ==
    [][\A text \in ImportFiles :
          (OnloadOf(text) /\ ~IsStringArrayText(text)) =>
              /\ Len(last'.dialog) = 1
              /\ last'.dialog[1].kind = "alert"
              /\ NothingChanged]_vars

\* C4 witness: an import of an array with a non-string element has just been
\* rejected with an alert while the list held favorites
RejectedWithFavorites ==
    /\ last.op = "onload"
    /\ last.data = <<TextX2>>
    /\ last.dialog # NoDialog
    /\ last.dialog[1].kind = "alert"
    /\ favorites # <<>>
    /\ store # <<>>

\* C5: a valid import completing while the list is non-empty asks for
\* confirmation and replaces the list only on a yes; on a no nothing changes
\* and no alert is shown; a valid import completing while the list is empty
\* asks nothing and replaces the list.
OverwriteNeedsConfirmation ==
    [][\A text \in ImportFiles :
          (OnloadOf(text) /\ IsStringArrayText(text)) =>
              IF favorites # <<>>
              THEN /\ Len(last'.dialog) = 1
                   /\ last'.dialog[1].kind = "confirm"
                   /\ last'.dialog[1].current = Len(favorites)
                   /\ last'.dialog[1].imported = Len(JSONParse(text).val.items)
                   /\ IF last'.dialog[1].answer
                      THEN favorites' = JSONParse(text).val.items
                      ELSE NothingChanged
              ELSE /\ last'.dialog = NoDialog
                   /\ favorites' = JSONParse(text).val.items]_vars

\* C5 witness: the user has just declined the overwrite of a non-empty list by a
\* valid file that differs from it
DeclinedOverwrite ==
    /\ last.op = "onload"
    /\ IsStringArrayText(last.data[1])
    /\ last.dialog # NoDialog
    /\ last.dialog[1].kind = "confirm"
    /\ ~last.dialog[1].answer
    /\ favorites # <<>>
    /\ favorites # JSONParse(last.data[1]).val.items

\* the step is the completion of a successful import of text: valid, and
\* confirmed when the list was not empty
SuccessfulImportOf(text) ==
    /\ OnloadOf(text)
    /\ IsStringArrayText(text)
    /\ favorites = <<>> \/ (last'.dialog # NoDialog /\ last'.dialog[1].answer)

\* C6: after a successful import the favorites are exactly the imported ids,
\* every former favorite that is not in the imported array is no favorite any
\* more, and the store entry holds exactly the imported array.
ImportReplaces ==
    [][\A text \in ImportFiles :
          SuccessfulImportOf(text) =>
              /\ favorites' = JSONParse(text).val.items
              /\ \A id \in Ids :
                    (isFavorite(favorites, id) /\ ~isFavorite(JSONParse(text).val.items, id))
                        => ~isFavorite(favorites', id)
              /\ Len(store') = 1
              /\ JSONParse(store'[1]) = [ok |-> TRUE, val |-> JSONParse(text).val]]_vars

\* C6 witness: a confirmed import put ["b", "x"] in place of a list that held a,
\* and a is no favorite any more
ReplacedNotMerged ==
    /\ last.op = "onload"
    /\ last.data = <<TextBX>>
    /\ last.dialog # NoDialog
    /\ last.dialog[1].kind = "confirm"
    /\ last.dialog[1].answer
    /\ last.dialog[1].current >= 2
    /\ favorites = <<IdB, IdX>>
    /\ store = <<<<"[", Q, "b", Q, ",", Q, "x", Q, "]">>>>

\* C7: loadFavorites starts the list empty when the store has no entry; removes
\* the entry and starts empty when the stored value is no well-formed sequence
\* of strings; and otherwise starts with the stored sequence.
LoadNeverPropagatesCorruption ==
    last.op = "constructor" =>
        IF last.data = <<>>
        THEN favorites = <<>> /\ store = <<>>
        ELSE IF ~IsStringArrayText(last.data[1])
        THEN favorites = <<>> /\ store = <<>>
        ELSE favorites = JSONParse(last.data[1]).val.items /\ store = last.data

\* filterEvents was the last to assign the view: it ran as a listener, as the
\* first render of parseData, or at the end of a successful import
FilterEventsRan ==
    \/ last.op = "filterEvents"
    \/ last.op = "parseData" /\ last.outcome = "loaded"
    \/ last.op = "onload" /\ last.outcome = "replaced"

\* a character with a capital letter made small
Small(ch) == IF ch \in Range(Upper) THEN Lower[IndexIn(Upper, ch)] ELSE ch

\* the characters of a field, none for a missing field
TextOf(field) == IF field.t = "string" THEN field.s ELSE <<>>

RECURSIVE SpaceJoined(_)
\* the fields with one space between each two neighbours
SpaceJoined(fields) ==
    IF Len(fields) <= 1 THEN (IF fields = <<>> THEN <<>> ELSE fields[1])
    ELSE SpaceJoined(SubSeq(fields, 1, Len(fields) - 1)) \o <<" ">> \o fields[Len(fields)]

\* title, the non-empty speaker names in order, room name (or empty), track (or
\* empty), joined by spaces
SearchedText(event) ==
    SpaceJoined(<<TextOf(event.title)>>
                \o SelectSeq([i \in DOMAIN event.speakers |-> TextOf(event.speakers[i])],
                             LAMBDA name : Len(name) > 0)
                \o <<TextOf(event.roomName), TextOf(event.track)>>)

\* term, case ignored, occurs in text at some offset
OccursIgnoringCase(term, text) ==
    \E offset \in 0..Len(text) :
        /\ offset + Len(term) <= Len(text)
        /\ \A j \in 1..Len(term) : Small(text[offset + j]) = Small(term[j])

\* the search predicate: every event passes an empty term
MatchesSearch(event, term) ==
    Len(term) = 0 \/ OccursIgnoringCase(term, SearchedText(event))

\* all the predicates the criteria make active
PassesAllPredicates(event) ==
    /\ controls.favoritesOnly => \E i \in DOMAIN favorites : favorites[i] = event.id
    /\ controls.dayFilter # All =>
          (event.dayId.t = "string" /\ event.dayId.s = controls.dayFilter)
    /\ controls.trackFilter # All =>
          (event.track.t = "string" /\ event.track.s = controls.trackFilter)
    /\ MatchesSearch(event, controls.searchInput)

\* C8: the view filterEvents produces holds exactly the catalog events that pass
\* all active predicates (favorites, day, track, search), none twice and none
\* from outside the catalog; an event without a day is in no view under a
\* specific day filter, one without a track in none under a specific track filter.
ViewHoldsExactlyThePassingEvents ==
    FilterEventsRan =>
        /\ \A k \in DOMAIN filteredEvents : filteredEvents[k] \in DOMAIN events
        /\ \A i \in DOMAIN events :
              PassesAllPredicates(events[i]) <=> (\E k \in DOMAIN filteredEvents : filteredEvents[k] = i)
        /\ \A k1, k2 \in DOMAIN filteredEvents : k1 # k2 => filteredEvents[k1] # filteredEvents[k2]
        /\ \A k \in DOMAIN filteredEvents :
              /\ controls.dayFilter # All => Truthy(events[filteredEvents[k]].dayId)
              /\ controls.trackFilter # All => Truthy(events[filteredEvents[k]].track)

\* C8 witness: filterEvents ran under favoritesOnly with the Saturday and Sys
\* filters and a search term, and kept exactly event a of the five
FilteredDownToOne ==
    /\ FilterEventsRan
    /\ Len(events) = 5
    /\ controls.favoritesOnly
    /\ controls.dayFilter = Saturday
    /\ controls.trackFilter = Sys
    /\ controls.searchInput = <<"1", " ", "s">>
    /\ filteredEvents = <<3>>
    /\ events[3] = EventA

\* no filter but the search is active
OnlySearchActive ==
    /\ ~controls.favoritesOnly
    /\ controls.dayFilter = All
    /\ controls.trackFilter = All

\* C9: an event passes the search iff the lower-cased term is a substring of the
\* lower-cased, space-joined title, non-empty speaker names, room name and
\* track; every event passes an empty term.  Every event of a view matches the
\* term, and with no other filter active every matching event is in the view.
SearchIsSubstringMatch ==
    FilterEventsRan =>
        /\ \A k \in DOMAIN filteredEvents :
              MatchesSearch(events[filteredEvents[k]], controls.searchInput)
        /\ OnlySearchActive =>
              \A i \in DOMAIN events :
                  MatchesSearch(events[i], controls.searchInput)
                      => \E k \in DOMAIN filteredEvents : filteredEvents[k] = i
        /\ (OnlySearchActive /\ controls.searchInput = <<>>) => Len(filteredEvents) = Len(events)

\* C9 witness: the term "e b" found only event b, across the join of its title
\* "Kube" and its speaker "Bo", the empty speaker name before it left out
FoundAcrossJoin ==
    /\ FilterEventsRan
    /\ OnlySearchActive
    /\ controls.searchInput = <<"e", " ", "b">>
    /\ Len(events) = 5
    /\ events[1] = EventB
    /\ filteredEvents = <<1>>

\* saturday 0, sunday 1, any other or no day 2
RankOf(event) ==
    IF event.dayId.t = "string" /\ event.dayId.s = Saturday THEN 0
    ELSE IF event.dayId.t = "string" /\ event.dayId.s = Sunday THEN 1
    ELSE 2

HasTime(event) == event.startTime.t = "string" /\ Len(event.startTime.s) > 0

\* s is before t, or equal to it, in the lexical order of the characters' codes
LexicalLeq(s, t) ==
    CompareWeights([i \in DOMAIN s |-> CodeUnit(s[i])], [i \in DOMAIN t |-> CodeUnit(t[i])]) <= 0

\* (rank, time) of x is at most that of y, an event without a time after all with one
TimeOrderLeq(x, y) ==
    \/ RankOf(x) < RankOf(y)
    \/ /\ RankOf(x) = RankOf(y)
       /\ IF HasTime(x) THEN (~HasTime(y) \/ LexicalLeq(x.startTime.s, y.startTime.s))
          ELSE ~HasTime(y)

\* C10: while sortBy is time, every two adjacent events of the view are in
\* (day rank, start time) order, events without a start time last within a day.
ViewOrderedByTime ==
    controls.sortBy = "time" =>
        \A k \in 1..(Len(filteredEvents) - 1) :
            TimeOrderLeq(events[filteredEvents[k]], events[filteredEvents[k + 1]])

\* C10 witness: the whole large catalog sorted by time: Saturday 09:30, Saturday
\* 10:00, Saturday without a time, Sunday 09:00, and last the event without a day
WholeCatalogByTime ==
    /\ controls.sortBy = "time"
    /\ FilterEventsRan
    /\ Len(events) = 5
    /\ Len(filteredEvents) = 5
    /\ [k \in 1..5 |-> events[filteredEvents[k]].id] = <<IdD, IdA, IdE, IdB, IdC>>

----------------------------------------------------------------------------
(* Stability of the sort *)

\* the characters of an optional field, none when it is missing or empty
KeyText(field) == IF field.t = "string" THEN field.s ELSE <<>>

\* x and y have the same key under sortBy
SameKey(sortBy, x, y) ==
    CASE sortBy = "time" ->
            RankOf(x) = RankOf(y) /\ KeyText(x.startTime) = KeyText(y.startTime)
      [] sortBy = "title" -> KeyText(x.title) = KeyText(y.title)
      [] sortBy = "room" -> KeyText(x.roomName) = KeyText(y.roomName)
      [] sortBy = "day" -> RankOf(x) = RankOf(y)
      [] sortBy = "track" -> KeyText(x.track) = KeyText(y.track)
      [] OTHER -> TRUE

----------------------------------------------------------------------------
(* A catalog that cannot be loaded *)

\* C12: a missing or unparsable catalog ends the deferred parse with the error
\* message in place of the list and an empty event collection, and the
\* controls stay operative: a later search, filter or sort change runs
\* filterEvents over the empty collection (an empty view, a count of 0 events).
FailedLoadKeepsControlsOperative ==
    [][/\ (phase = "scheduled" /\ phase' = "failed")
            => (display'.eventsList = "error" /\ events' = <<>>)
       /\ (phase = "failed" /\ controls' # controls)
            => /\ last'.op = "filterEvents"
               /\ filteredEvents' = <<>>
               /\ display'.eventCount = <<0>>]_vars

----------------------------------------------------------------------------
(* Two toggles of one id in succession *)

\* the ids that are members of a favorites list
Members(favs) == {id \in Ids : \E i \in DOMAIN favs : favs[i] = id}

\* the handler that ran last was the second of two toggles of eventId in succession
ToggledTwice(eventId) ==
    /\ last.op = "toggleFavorite"
    /\ last.data = <<eventId.s>>
    /\ last.again

\* C13: after toggleFavorite(id) has been called twice in succession the
\* favorites have exactly the members they had before the two calls, and the
\* stored value is a list of exactly those members.
DoubleToggleIsIdentity ==
    [][\A eventId \in Ids :
          (toggleFavorite(eventId) /\ last.op = "toggleFavorite" /\ last.data = <<eventId.s>>)
              => /\ Members(favorites') = Members(last.before[1])
                 /\ store' # <<>>
                 /\ JSONParse(store'[1]).ok
                 /\ Members(JSONParse(store'[1]).val.items) = Members(last.before[1])]_vars

----------------------------------------------------------------------------
(* The favorite count on the page *)

\* C14: after every toggle, import and filter change the favorite count shown
\* is the number of distinct ids in the favorites, ids absent from the catalog
\* included, whatever the filter criteria are.
FavoriteCountIsSetSize ==
    (last.op = "toggleFavorite" \/ FilterEventsRan)
        => display.favoriteCount = <<Cardinality(Range(favorites))>>

\* C15 as stated: two calls of toggleFavorite(id) in succession make exactly
\* one write to the store between them, and the stored value then holds the
\* members the favorites had before the two calls.
TwoTogglesOneWrite ==
    [][\A eventId \in Ids :
          (toggleFavorite(eventId) /\ last.op = "toggleFavorite" /\ last.data = <<eventId.s>>)
              => /\ last.writes + last'.writes = 1
                 /\ store' # <<>>
                 /\ JSONParse(store'[1]).ok
                 /\ Members(JSONParse(store'[1]).val.items) = Members(last.before[1])]_vars

\* C15: two calls of toggleFavorite(id) in succession make exactly two writes
\* to the store, one per call, and each write stores the favorites list as it
\* is after that call.
TwoTogglesTwoWrites ==
    [][\A eventId \in Ids :
          (toggleFavorite(eventId) /\ last.op = "toggleFavorite" /\ last.data = <<eventId.s>>)
              => /\ last.writes = 1
                 /\ store = <<JSONStringify(Arr(favorites))>>
                 /\ last'.writes = 1
                 /\ store' = <<JSONStringify(Arr(favorites'))>>]_vars

\* C15 witness: from the favorites [a, b] event a was toggled off and on again;
\* the list is now [b, a] and the second write has stored it
ToggledOffAndOnAgain ==
    /\ ToggledTwice(IdA)
    /\ last.writes = 1
    /\ last.before = <<<<IdB>>>>
    /\ favorites = <<IdB, IdA>>
    /\ store = <<JSONStringify(Arr(<<IdB, IdA>>))>>

----------------------------------------------------------------------------
(* Export and import of the exported document: the page is opened on the   *)
(* small catalog, and the user toggles favorites, exports them and picks   *)
(* the downloaded file (or a file with an id twice) for import.            *)

\* the import button and the pick of the file the export has just downloaded
importExportedFile ==
    /\ last.op = "saveFavoritesToFile"
    /\ loadFavoritesFromFile(last.data[1])

InitRoundTrip ==
    \E stored \in {<<>>, <<TextA>>, <<TextBX>>, <<TextX2>>} :
        Constructed(stored, DataArray(SmallCatalog))

NextRoundTrip ==
    \/ parseData
    \/ favoritesOnlyChange
    \/ \E eventId \in {IdA, IdB} : toggleFavorite(eventId)
    \/ saveFavoritesToFile
    \/ importExportedFile
    \/ loadFavoritesFromFile(TextAA)
    \/ \E text \in reads : \E answer \in BOOLEAN : readerOnload(text, answer)

SpecRoundTrip == InitRoundTrip /\ [][NextRoundTrip]_vars

\* the document text holds exactly the list favs, in its order
HoldsTheList(text, favs) == JSONParse(text) = [ok |-> TRUE, val |-> Arr(favs)]

\* C16: the export changes neither the favorites nor the store and its
\* document is the favorites list in its (insertion) order; when a document
\* that holds the favorites as they are is imported, with the confirmation
\* accepted or the favorites empty, the favorites afterwards are the same set.
ExportImportRoundTrip ==
    [][/\ last'.op = "saveFavoritesToFile"
            => /\ favorites' = favorites
               /\ store' = store
               /\ last'.data # <<>>
               /\ HoldsTheList(last'.data[1], favorites)
       /\ \A text \in reads :
             (/\ OnloadOf(text)
              /\ HoldsTheList(text, favorites)
              /\ favorites = <<>> \/ (last'.dialog # NoDialog /\ last'.dialog[1].answer))
                 => Range(favorites') = Range(favorites)]_vars

\* C16 witness: the favorites [b, x, a] were exported and the downloaded
\* document imported over the same three favorites, the confirmation accepted
ExportedListImported ==
    /\ last.op = "onload"
    /\ last.outcome = "replaced"
    /\ last.data = <<JSONStringifyPretty(Arr(<<IdB, IdX, IdA>>))>>
    /\ last.dialog = Confirm(3, 3, TRUE)
    /\ favorites = <<IdB, IdX, IdA>>
    /\ store = <<JSONStringify(Arr(<<IdB, IdX, IdA>>))>>

----------------------------------------------------------------------------
(* The deferred load: the page is opened on a catalog in either form, or   *)
(* on a missing or unparsable one; requestIdleCallback with its timeout of *)
(* one second, or setTimeout, runs parseData once, whatever the user does. *)

InitLoad ==
    \E stored \in {<<>>, <<TextA>>, <<TextBX>>} :
        \E data \in {DataArray(SmallCatalog), DataObject(SmallCatalog), DataMissing, DataInvalid} :
            Constructed(stored, data)

NextLoad ==
    \/ parseData
    \/ \E term \in {<<>>, Kube} : searchInput(term)
    \/ favoritesOnlyChange
    \/ \E key \in {"track", "time"} : sortByChange(key)
    \/ \E eventId \in {IdA, IdB} : toggleFavorite(eventId)
    \/ saveFavoritesToFile
    \/ loadFavoritesFromFile(TextBX)
    \/ \E answer \in BOOLEAN : readerOnload(TextBX, answer)

SpecLoad == InitLoad /\ [][NextLoad]_vars /\ WF_vars(parseData)

\* C17: while the parse task is pending the page shows the loading indicator
\* and holds no event; the task eventually runs; once it has run it never
\* runs again and no later toggle, filter change, import or export changes
\* the event collection.
CatalogLoadedOnce ==
    /\ [](phase = "scheduled" => (display.eventsList = "loading" /\ events = <<>>))
    /\ <>(phase # "scheduled")
    /\ [][phase # "scheduled" => (phase' = phase /\ events' = events)]_vars

\* C17 witness: the catalog was loaded and is as loaded after a toggle and a
\* replacing import
LoadedCatalogLeftAlone ==
    /\ phase = "ready"
    /\ events = SmallCatalog
    /\ last.op = "onload"
    /\ last.outcome = "replaced"
    /\ favorites = <<IdB, IdX>>
    /\ last.dialog # NoDialog

----------------------------------------------------------------------------
(* Favorite ids of no catalog event *)

\* the stored entry is a list that holds id
InStore(st, id) ==
    /\ st # <<>>
    /\ LET r == JSONParse(st[1])
       IN  r.ok /\ IsArray(r.val) /\ \E i \in DOMAIN r.val.items : r.val.items[i] = id

\* id is in the favorites and is the id of no catalog event
Dangling(favs, evs, id) ==
    /\ \E i \in DOMAIN favs : favs[i] = id
    /\ \A i \in DOMAIN evs : evs[i].id # id

\* the step is a completed import that replaced the favorites
ReplacingImport == last'.op = "onload" /\ last'.outcome = "replaced" /\ reads' # reads

\* C18: the load from the store and the import keep every id of the list they
\* read, in the catalog or not, and an id that is in the favorites and in no
\* catalog event is still in the favorites and in the store after every step
\* that is neither a toggle of that id nor a replacing import.
DanglingIdsAreKept ==
    [][/\ (last.op = "constructor" /\ last.data # <<>>)
            => LET r == JSONParse(last.data[1])
               IN  (r.ok /\ IsArray(r.val))
                      => \A id \in Ids : isFavorite(r.val.items, id) => isFavorite(favorites, id)
       /\ ReplacingImport
            => LET r == JSONParse(last'.data[1])
               IN  \A id \in Ids : isFavorite(r.val.items, id) => isFavorite(favorites', id)
       /\ \A id \in Ids :
             (Dangling(favorites, events, id) /\ ~toggleFavorite(id) /\ ~ReplacingImport)
                 => (isFavorite(favorites', id) /\ InStore(store', id))]_vars

\* C18 witness: x, the id of no catalog event, came from the store with b; it
\* is in the favorites and in the store after the load of the catalog and a
\* toggle of event a
DanglingIdSurvived ==
    /\ phase = "ready"
    /\ last.op = "toggleFavorite"
    /\ last.data = <<IdA.s>>
    /\ Dangling(favorites, events, IdX)
    /\ favorites = <<IdB, IdX, IdA>>
    /\ InStore(store, IdX)

----------------------------------------------------------------------------
(* The track selector: the page is opened on any catalog of up to          *)
(* MaxCatalog different events drawn from events with the tracks Sys       *)
(* (twice), Cl, sys, Sy, the empty track and no track.                     *)

IdF == Str(<<"f">>)
IdG == Str(<<"g">>)
IdH == Str(<<"h">>)

EventF == Event(IdF, Str(<<"N", "i", "x">>), Str(<<"s", "y", "s">>), Str(Sunday),
                Undef, Undef, <<>>)
EventG == Event(IdG, Str(<<"L", "u", "a">>), Str(<<"S", "y">>), Str(Saturday),
                Undef, Undef, <<>>)
EventH == Event(IdH, Str(<<"A", "w", "k">>), Str(<<>>), Undef,
                Undef, Undef, <<>>)

TrackEvents == {EventA, EventD, EventB, EventE, EventF, EventG, EventH}

\* events of one catalog
MaxCatalog == 3

Catalogs ==
    {c \in UNION {[1..n -> TrackEvents] : n \in 0..MaxCatalog} :
        \A i, j \in DOMAIN c : i # j => c[i] # c[j]}

InitTracks == \E c \in Catalogs : Constructed(<<>>, DataArray(c))

NextTracks ==
    \/ parseData
    \/ \E key \in {"track", "title"} : sortByChange(key)
    \/ \E track \in {All, Sys, Cl, <<"s", "y", "s">>, <<"S", "y">>} : trackFilterChange(track)

SpecTracks == InitTracks /\ [][NextTracks]_vars

\* the event has a track: a string that is not empty
HasTrack(event) == event.track.t = "string" /\ Len(event.track.s) > 0

\* s is before t in the lexical order of the characters' codes
LexicallyBefore(s, t) ==
    \E p \in 1..(Len(s) + 1) :
        /\ \A q \in 1..(p - 1) : q <= Len(t) /\ s[q] = t[q]
        /\ IF p > Len(s) THEN Len(t) >= p
           ELSE p <= Len(t) /\ CodeUnit(s[p]) < CodeUnit(t[p])

\* C19: once the catalog is loaded the options of the track selector hold the
\* track of every catalog event that has one exactly once, hold nothing that
\* is not the track of a catalog event, and are in ascending lexical order.
TrackSelectorListsTracks ==
    phase = "ready" =>
        /\ \A i \in DOMAIN events :
              HasTrack(events[i])
                  => Cardinality({k \in DOMAIN trackOptions : trackOptions[k] = events[i].track.s}) = 1
        /\ \A k \in DOMAIN trackOptions :
              \E i \in DOMAIN events : HasTrack(events[i]) /\ events[i].track.s = trackOptions[k]
        /\ \A k \in 1..(Len(trackOptions) - 1) :
              LexicallyBefore(trackOptions[k], trackOptions[k + 1])

\* C19 witness: the catalog [f, a, d] with the tracks sys, Sys, Sys gave the
\* options Sys, sys: Sys once, and before sys although it is behind it in the
\* catalog
TracksOnceAndInOrder ==
    /\ phase = "ready"
    /\ events = <<EventF, EventA, EventD>>
    /\ trackOptions = <<Sys, <<"s", "y", "s">>>>

----------------------------------------------------------------------------
(* The favorites list as a set *)

\* C20: the favorites list never holds an id twice, in any state reached from
\* the load of the store by toggles and completed imports.
FavoritesHoldNoIdTwice ==
    \A i, j \in DOMAIN favorites : i # j => favorites[i] # favorites[j]

----------------------------------------------------------------------------
(* Imports in flight: the page is opened on the small catalog with no      *)
(* favorite or one, and the user picks up to MaxPending files for import   *)
(* and toggles favorites while the reads are in flight; the reads complete *)
(* in any order.                                                           *)

\* reads in flight at once
MaxPending == 2

InitImport ==
    \E stored \in {<<>>, <<TextA>>} : Constructed(stored, DataArray(SmallCatalog))

NextImport ==
    \/ parseData
    \/ \E eventId \in {IdA, IdB} : toggleFavorite(eventId)
    \/ \E text \in {TextEmptyArray, TextAA, TextBX} : readAsText(text, MaxPending)
    \/ \E text \in reads : \E answer \in BOOLEAN : readerOnload(text, answer)

SpecImport == InitImport /\ [][NextImport]_vars

\* the step showed the confirmation dialog
Asked == Len(last'.dialog) = 1 /\ last'.dialog[1].kind = "confirm"

\* C21: whatever toggles and other imports ran between the click and the
\* completion of a read, a list that is non-empty when the read completes is
\* replaced only after a confirmation that was accepted, and the confirmation
\* shows the size the list has when the read completes.
OverwriteCheckedAtCompletion ==
    [][\A text \in reads :
          OnloadOf(text) =>
              /\ (favorites # <<>> /\ (last'.outcome = "replaced" \/ favorites' # favorites))
                    => (Asked /\ last'.dialog[1].answer)
              /\ Asked => last'.dialog[1].current = Len(favorites)
              /\ (favorites # <<>> /\ IsStringArrayText(text)) => Asked]_vars

\* C21 witness: a toggle ran while the read of [b, x] was in flight and left
\* one favorite, a; the completion then asked to replace 1 favorite by 2, and
\* on the yes replaced it, while another read is still in flight
AskedWithSizeAtCompletion ==
    /\ last.op = "onload"
    /\ last.afterToggle
    /\ last.data = <<TextBX>>
    /\ last.dialog = Confirm(1, 2, TRUE)
    /\ favorites = <<IdB, IdX>>
    /\ reads = {TextAA}

=============================================================================
